---- MODULE Spec2Model ----
(***************************************************************************)
(* Reconciliation-and-scheduling engine of domain-manager                  *)
(* (src/app/scheduler.py, with the collaborators of src/app/services.py    *)
(* and the manual trigger routes of src/app/routes.py).                    *)
(*                                                                         *)
(* Threads: the scheduler thread ("sched", run_scheduler), one UI request  *)
(* thread ("ui", the trigger routes) and the SSL batch workers started by  *)
(* run_ssl_check.  Collaborator results (resolvers, Route 53, certbot, the *)
(* certificate reader) are inputs drawn with \E in the action that calls   *)
(* them.  One action is one step of a handler between two blocking calls   *)
(* of interest: the resolve part of a DDNS cycle, one iteration of its     *)
(* domain loop, its final save, the scan and the start of run_ssl_check,   *)
(* one iteration of the worker loop, the worker's nap.                      *)
(***************************************************************************)
EXTENDS Integers, Sequences, FiniteSets, TLC

\* ------------------------------------------------------------------ bounds
MaxDomains == 2   \* domains in the configuration
MaxTime == 2      \* clock readings, one per DDNS cycle started

\* --------------------------------------------------------------- constants
LongNapEvery == 10   \* processed_count % 10

\* ------------------------------------------------------------------ values
None == "None"                 \* Python None where a string is expected
NoTime == <<>>                 \* Python None where a datetime is expected
At(n) == <<n>>                 \* the datetime read from the clock at n
Raise == "RAISE"               \* a collaborator call that raises

Threads == {"sched", "ui"}
AllNames == <<"a.example.com", "b.example.com", "c.example.com", "d.example.com">>
IPs == {"1.1.1.1", "9.9.9.9"}
AliasValues == {"ALIAS: lb.example.com."}
RecordValues == IPs \cup AliasValues \cup {None}
ClientError == "ClientError"   \* list_resource_record_sets raises ClientError
Expiries == {At(90), At(180)}
CertReads == Expiries \cup {NoTime}

\* (success, output) pairs of CertbotService._run_command
RenewalResults ==
    { <<TRUE, "Congratulations, all renewals succeeded">>,
      <<TRUE, "Renewed certificate">>,
      <<TRUE, "Certificate not yet due for renewal">>,
      <<FALSE, "stderr">> }

VARIABLES
    domains,                \* config.get_domains(): sequence of DomainSpec
    notifications_enabled,  \* config['notifications']['enabled']
    ip_check_interval,      \* config['ip_check_interval']
    channels,               \* config['notifications']: which channels are set up
    timezone,               \* config['timezone'], as its offset from UTC in minutes
    log_retention,          \* config['log_retention'], as its words
    logs,                   \* the files below /certs and /logs
    public_ip,              \* app_state["public_ip"]
    last_ip_check_time,     \* app_state["last_ip_check_time"]
    domain_states,          \* app_state["domain_states"]: name -> DomainState
    disk,                   \* STATE_FILE: <<>> (no file) or <<document>>
    disk_writable,          \* whether open(STATE_FILE, 'w') succeeds
    now,                    \* the clock
    sched_pc,               \* where run_scheduler is
    jobs,                   \* schedule.jobs: the jobs registered by run_scheduler
    cyc,                    \* per thread: the run_ddns_update call in progress
    trig,                   \* per thread: the run_ssl_check call in progress
    worker,                 \* per starting thread: its SSL_Worker_Thread
    tally,                  \* resolution-failure notifications and lost IPs so far
    saver,                  \* the save_state call of the UI's refresh route
    last                    \* what the last step called and emitted

vars == <<domains, notifications_enabled, ip_check_interval, channels, timezone,
          log_retention, logs, disk_writable, public_ip, last_ip_check_time, domain_states, disk, now,
          sched_pc, jobs, cyc, trig, worker, tally, saver, last>>

config_vars ==
    <<domains, notifications_enabled, ip_check_interval, channels, timezone,
      log_retention, disk_writable>>
state_vars == <<public_ip, last_ip_check_time, domain_states>>

\* ------------------------------------------------------------ configuration
DomainSpecs(i) ==
    [name : {AllNames[i]}, ddns : BOOLEAN, auto_update : BOOLEAN,
     notifications : BOOLEAN, ssl : BOOLEAN]

Configs ==
    UNION { { d \in [1..n -> UNION {DomainSpecs(i) : i \in 1..n}] :
                \A i \in 1..n : d[i].name = AllNames[i] } : n \in 1..MaxDomains }

NameOf(i) == domains[i].name
ConfigNames == {domains[i].name : i \in 1..Len(domains)}

\* ------------------------------------------------------------- DomainState
EmptyEntry ==
    [recorded_ip |-> None, ssl_expiration |-> NoTime,
     last_update_time |-> NoTime, ssl_last_renew |-> NoTime]

\* A lookup that hands out a fresh DomainState whatever is stored.
EntryOf_mutfresh(ds, name) == EmptyEntry

\* The entry of a domain, DomainState() when there is none yet.
EntryOf(ds, name) == IF name \in DOMAIN ds THEN ds[name] ELSE EmptyEntry

Put(ds, name, entry) ==
    [n \in DOMAIN ds \cup {name} |-> IF n = name THEN entry ELSE ds[n]]

\* ------------------------------------------------------------ notifications
Note(kind, domain, a, b) == [kind |-> kind, domain |-> domain, a |-> a, b |-> b]

\* The URL-based notifiers (of discord, slack, telegram, msteams, pushover,
\* gchat) that a configuration can enable.
UrlServices == {"discord", "slack"}

\* config['notifications'] below 'enabled': smtp is smtp.enabled,
\* smtp_complete says that host, port, user, password, from and to are all
\* set, urls are the URL notifiers that are enabled and have a URL.
ChannelConfigs == [smtp : BOOLEAN, smtp_complete : BOOLEAN, urls : SUBSET UrlServices]
DefaultChannels == [smtp |-> TRUE, smtp_complete |-> TRUE, urls |-> {}]

\* NotificationService.__init__: nothing is set up when notifications are
\* globally disabled, SMTP is dropped when its settings are incomplete, and
\* the service disables itself when no notifier is left.
NotificationService(ch, global_enabled) ==
    LET smtp_enabled == global_enabled /\ ch.smtp /\ ch.smtp_complete
        servers == IF global_enabled THEN ch.urls ELSE {}
    IN  [enabled |-> global_enabled /\ (servers # {} \/ smtp_enabled),
         smtp_enabled |-> smtp_enabled,
         servers |-> servers]

\* _send_smtp: smtp_ok says whether smtplib delivers (an exception is caught
\* and gives False).
_send_smtp(svc, smtp_ok) == IF ~svc.smtp_enabled THEN TRUE ELSE smtp_ok

\* _send_apprise: apprise_ok is what apobj.notify returns (an exception is
\* caught and gives False).
_send_apprise(svc, apprise_ok) == IF svc.servers = {} THEN TRUE ELSE apprise_ok

\* _send: the overall result.
_send(svc, smtp_ok, apprise_ok) ==
    IF ~svc.enabled THEN TRUE
    ELSE _send_smtp(svc, smtp_ok) \/ _send_apprise(svc, apprise_ok)

\* Alerts that one of the two flags is enough to enable.
SendAlerts_mutor(global_enabled, domain_enabled) == global_enabled \/ domain_enabled

\* send_alerts = global_notifications_enabled and domain_notifications_enabled
SendAlerts(global_enabled, domain_enabled) == global_enabled /\ domain_enabled

\* What one step did: the thread t and domain d it ran for, the resolvers'
\* answer, the provider's answer and the record value queried, the public IP it compared with, the
\* calls it made (gets, sets with the outcome upd, renews, creates for
\* create_certificate), the notifications it handed to send_notification,
\* whether it saved and whether it raised, how its load_state ended
\* ("nofile", "ok", "error"; "-" without one), for a test notification what
\* the two handlers met and what _send returned, for a log cleanup the
\* files it called os.remove on, and for a renewal check what it returned
\* and what the re-read of the certificate gave.
NoEvent ==
    [op |-> "init", t |-> "-", d |-> "-", resolved |-> None, queried |-> None,
     prev_ip |-> None, found |-> FALSE, gets |-> <<>>, sets |-> <<>>,
     upd |-> "-", renews |-> <<>>, notes |-> <<>>, saved |-> FALSE,
     raised |-> FALSE, loaded |-> "-", creates |-> <<>>, fanout |-> <<>>,
     removes |-> {}, answer |-> "-", renewal |-> <<>>, reread |-> <<>>]

\* The writes a step makes to app_state, in program order: <<field, value>>.
LastWrite(writes, field, old) ==
    LET ks == { k \in DOMAIN writes : writes[k][1] = field }
    IN  IF ks = {} THEN old
        ELSE writes[CHOOSE k \in ks : \A j \in ks : j <= k][2]

WriteCount(writes, field) == Cardinality({ k \in DOMAIN writes : writes[k][1] = field })

\* -------------------------------------------------------------- persistence
\* The UTC offset in force in the configured timezone at instant n (hours):
\* the zone alternates between its standard and its daylight-saving offset.
UtcOffset(n) == IF n % 4 < 2 THEN 1 ELSE 2

\* datetime.isoformat() of an aware datetime: the wall-clock reading in its
\* zone followed by the offset; json null stays null.
isoformat(t) ==
    IF t = NoTime THEN <<>> ELSE <<"iso", t[1] + UtcOffset(t[1]), UtcOffset(t[1])>>

\* A parser that reads the wall-clock part and drops the offset.
fromisoformat_naive(s) == IF s = <<>> THEN NoTime ELSE At(s[2])

\* datetime.fromisoformat(): the instant is the wall-clock reading minus the
\* offset written after it.
fromisoformat(s) == IF s = <<>> THEN NoTime ELSE At(s[2] - s[3])

EntryToText(e) ==
    [e EXCEPT !.ssl_expiration = isoformat(@),
              !.last_update_time = isoformat(@),
              !.ssl_last_renew = isoformat(@)]

EntryFromText(e) ==
    [e EXCEPT !.ssl_expiration = fromisoformat(@),
              !.last_update_time = fromisoformat(@),
              !.ssl_last_renew = fromisoformat(@)]

\* save_state: the document written from a deep copy of app_state
state_to_save(pub, lict, ds) ==
    [public_ip |-> pub,
     last_ip_check_time |-> isoformat(lict),
     domain_states |-> [n \in DOMAIN ds |-> EntryToText(ds[n])]]

\* Outcome of writing STATE_FILE: written, or an OSError that save_state
\* catches and logs.
SaveResults == IF disk_writable THEN {"ok"} ELSE {"oserror"}

\* A save_state that writes nothing.
save_state_mutskip(d, io, pub, lict, ds) == d

save_state(d, io, pub, lict, ds) ==
    IF io = "ok" THEN <<state_to_save(pub, lict, ds)>> ELSE d

\* app_state as one value.
Memory(pub, lict, ds) ==
    [public_ip |-> pub, last_ip_check_time |-> lict, domain_states |-> ds]

\* The save_state call that the UI's refresh route makes, step by step:
\* "enter" before "with state_lock", "copy" while copy.deepcopy(app_state)
\* walks the dictionaries.  head holds the copied public_ip and
\* last_ip_check_time, size the length of domain_states when its iteration
\* began, todo the keys still to visit, copy the entries copied so far, and
\* seen the values app_state has had since the lock was taken that agree
\* with everything copied so far.
IdleSaver ==
    [pc |-> "idle", head |-> <<>>, size |-> 0, todo |-> <<>>,
     copy |-> [n \in {} |-> EmptyEntry], seen |-> {}]

\* state_lock is free: no save_state is inside its "with state_lock" block.
LockFree == saver.pc # "copy"

\* thread t is inside "with state_lock".
HoldsLock(t) == t = "ui" /\ saver.pc = "copy"

\* The keys of domain_states in the order the dictionary yields them.
KeysInOrder(ds) ==
    LET present(n) == n \in DOMAIN ds
    IN  SelectSeq(AllNames, present)

\* The value m of app_state agrees with the parts copied so far.
Agrees(m, head, copy) ==
    /\ m.public_ip = head[1].public_ip
    /\ m.last_ip_check_time = head[1].last_ip_check_time
    /\ \A n \in DOMAIN copy : n \in DOMAIN m.domain_states /\ m.domain_states[n] = copy[n]

\* An assignment to app_state made while the copy is under way.
Observe(sv, pub, lict, ds) ==
    IF sv.pc = "copy" /\ Agrees(Memory(pub, lict, ds), sv.head, sv.copy)
    THEN [sv EXCEPT !.seen = @ \cup {Memory(pub, lict, ds)}]
    ELSE sv

\* ------------------------------------------------------------- DDNS: resolve
\* A resolve part whose failure branch returns before the check time is
\* recorded.
ddns_resolve_step_late(pub, new_public_ip, global_enabled, tnow) ==
    LET failed == (new_public_ip = None)
        ip_has_changed == (pub # new_public_ip)
    IN [ failed |-> failed,
         writes |-> IF failed THEN << <<"public_ip", None>> >>
                    ELSE << <<"last_ip_check_time", At(tnow)>> >> \o
                         ( IF ip_has_changed THEN << <<"public_ip", new_public_ip>> >>
                           ELSE <<>> ),
         notes |-> IF failed /\ pub # None /\ global_enabled
                   THEN << Note("DDNS IP Check FAILED", "-", None, None) >>
                   ELSE <<>> ]

\* A resolve part that alerts on every failed resolution, whatever the stored
\* public IP.
ddns_resolve_step_repeat(pub, new_public_ip, global_enabled, tnow) ==
    LET failed == (new_public_ip = None)
        ip_has_changed == (pub # new_public_ip)
    IN [ failed |-> failed,
         writes |-> << <<"last_ip_check_time", At(tnow)>> >> \o
                    ( IF failed THEN << <<"public_ip", None>> >>
                      ELSE IF ip_has_changed THEN << <<"public_ip", new_public_ip>> >>
                      ELSE <<>> ),
         notes |-> IF failed /\ global_enabled
                   THEN << Note("DDNS IP Check FAILED", "-", None, None) >>
                   ELSE <<>> ]

\* A resolution step that goes on to the domain loop after a failure.
ddns_resolve_step_mutgoon(pub, new_public_ip, global_enabled, tnow) ==
    [ failed |-> FALSE,
      writes |-> << <<"last_ip_check_time", At(tnow)>>, <<"public_ip", new_public_ip>> >>,
      notes |-> IF new_public_ip = None /\ pub # None /\ global_enabled
                THEN << Note("DDNS IP Check FAILED", "-", None, None) >>
                ELSE <<>> ]

\* run_ddns_update up to the domain loop, as a function of what it reads:
\* the stored public IP, the resolvers' answer, the global notifications flag
\* and the clock.
ddns_resolve_step(pub, new_public_ip, global_enabled, tnow) ==
    LET failed == (new_public_ip = None)
        ip_has_changed == (pub # new_public_ip)
    IN [ failed |-> failed,
         writes |-> << <<"last_ip_check_time", At(tnow)>> >> \o
                    ( IF failed THEN << <<"public_ip", None>> >>
                      ELSE IF ip_has_changed THEN << <<"public_ip", new_public_ip>> >>
                      ELSE <<>> ),
         notes |-> IF failed /\ pub # None /\ global_enabled
                   THEN << Note("DDNS IP Check FAILED", "-", None, None) >>
                   ELSE <<>> ]

\* ---------------------------------------------------------- DDNS: one domain
\* An alias test that compares the whole value with the bare prefix.
\* Route53Service.get_a_record_ip: the record's value, 'ALIAS: <target>' for an
\* alias, None without a record or a zone, and None as well when the read
\* raises ClientError.
get_a_record_ip(answer) == IF answer = ClientError THEN None ELSE answer

IsAlias_exact(recorded_ip) == recorded_ip = "ALIAS:"

\* recorded_ip.startswith("ALIAS:")
IsAlias(recorded_ip) == recorded_ip \in AliasValues

\* The value written to recorded_ip when update_a_record_ip returned True.
RecordedAfterUpdate(new_public_ip, recorded_ip) == new_public_ip

\* An update call that is handed the value just read from the provider.
UpdateArgument_old(new_public_ip, recorded_ip) == recorded_ip

\* The argument of update_a_record_ip.
UpdateArgument(new_public_ip, recorded_ip) == new_public_ip

\* A mismatch branch that updates whatever auto_update says.
AttemptsUpdate_always(auto_update_enabled) == TRUE

\* Whether the mismatch branch calls update_a_record_ip.
AttemptsUpdate(auto_update_enabled) == auto_update_enabled

\* "if success:" on what update_a_record_ip returned.
UpdateSucceeded(upd) == upd = "ok"

\* One iteration of the domain loop for a DDNS-enabled domain whose entry
\* exists: rec is what get_a_record_ip returned, upd what update_a_record_ip
\* returns if it is called ("ok", "fail" or Raise).
ddns_domain_step(dc, entry, new_public_ip, rec, upd, tnow, global_enabled) ==
    LET send_alerts == SendAlerts(global_enabled, dc.notifications)
        queried == [entry EXCEPT !.recorded_ip = rec, !.last_update_time = At(tnow)]
        out == [entry |-> queried, sets |-> <<>>, notes |-> <<>>, raised |-> FALSE]
    IN  IF rec # None /\ IsAlias(rec) THEN out
        ELSE IF new_public_ip # rec THEN
            IF AttemptsUpdate(dc.auto_update) THEN
                LET call == << <<dc.name, UpdateArgument(new_public_ip, rec)>> >>
                IN  IF upd = Raise THEN [out EXCEPT !.sets = call, !.raised = TRUE]
                    ELSE IF UpdateSucceeded(upd) THEN
                        [out EXCEPT
                            !.sets = call,
                            !.entry = [queried EXCEPT !.recorded_ip =
                                          RecordedAfterUpdate(new_public_ip, rec)],
                            !.notes = IF send_alerts
                                      THEN << Note("DDNS IP Updated", dc.name,
                                                   new_public_ip, rec) >>
                                      ELSE <<>>]
                    ELSE
                        [out EXCEPT
                            !.sets = call,
                            !.notes = IF send_alerts
                                      THEN << Note("DDNS IP Update FAILED", dc.name,
                                                   None, None) >>
                                      ELSE <<>>]
            ELSE
                [out EXCEPT
                    !.notes = IF send_alerts
                              THEN << Note("DDNS IP Mismatch DETECTED", dc.name,
                                           new_public_ip, rec) >>
                              ELSE <<>>]
        ELSE out

\* ------------------------------------------------------ SSL: one domain
\* '"Congratulations, all renewals succeeded" in output or "Renewed" in output'
MarkerOutputs == {"Congratulations, all renewals succeeded", "Renewed certificate"}
HasMarker(output) == output \in MarkerOutputs

\* A renewal check that never passes --dry-run.
DryRun_never(auto_update_enabled) == FALSE

\* run_renewal_check(domain_name, auto_update_enabled): --dry-run when not
\* auto_update_enabled.
DryRun(auto_update_enabled) == ~auto_update_enabled

\* A certificate test that lets every domain through to the renewal check.
HasCertificate_always(cert1) == TRUE

\* "if not cert_monitor.get_cert_expiration_date(domain_name)" is false.
HasCertificate(cert1) == cert1 # NoTime

\* One iteration of the worker loop for an SSL-enabled domain, up to
\* save_state: cert1 is the first get_cert_expiration_date, renew the
\* (success, output) of run_renewal_check, cert2 the re-read.  raised is the
\* KeyError of app_state['domain_states'][domain_name] for a missing entry.
ssl_domain_step(dc, ds, cert1, renew, cert2, tnow, global_enabled) ==
    LET send_alerts == SendAlerts(global_enabled, dc.notifications)
        name == dc.name
        out == [ds |-> ds, renews |-> <<>>, creates |-> <<>>, reads |-> 1,
                notes |-> <<>>, raised |-> FALSE]
        call == << <<name, DryRun(dc.auto_update)>> >>
        store(d) == IF name \in DOMAIN d
                    THEN [d EXCEPT ![name].ssl_expiration = cert2]
                    ELSE d
    IN  IF ~HasCertificate(cert1) THEN out
        ELSE IF ~renew[1] THEN
            [out EXCEPT
                !.renews = call, !.reads = 2, !.ds = store(ds),
                !.notes = IF send_alerts
                          THEN << Note("SSL Certificate Renewal FAILED", name,
                                       renew[2], None) >>
                          ELSE <<>>]
        ELSE IF HasMarker(renew[2]) THEN
            IF name \notin DOMAIN ds
            THEN [out EXCEPT !.renews = call, !.raised = TRUE]
            ELSE [out EXCEPT
                    !.renews = call, !.reads = 2,
                    !.ds = store([ds EXCEPT ![name].ssl_last_renew = At(tnow)]),
                    !.notes = IF send_alerts
                              THEN << Note("SSL Certificate Renewed Successfully",
                                           name, renew[2], None) >>
                              ELSE <<>>]
        ELSE [out EXCEPT !.renews = call, !.reads = 2, !.ds = store(ds)]

\* The nap after the domain at (1-based) position i of total: none after the
\* last position, long when processed_count % 10 == 0, short otherwise.
NapAfter(i, total) ==
    IF ~(i < total) THEN "none"
    ELSE IF i % LongNapEvery = 0 THEN "long" ELSE "short"

\* ---------------------------------------------------------------- load_state
\* A state file that is no JSON document (cut short by an interrupted write).
Corrupt == [text |-> "{"]

\* How reading STATE_FILE can end: open, json.load or fromisoformat raise
\* ("error"), or all of them succeed ("ok", not for a corrupt file).
ParseResults(d) ==
    IF d # <<>> /\ d[1] = Corrupt THEN {"error"} ELSE {"ok", "error"}

\* Which branch of load_state is taken.
LoadOutcome(d, parse) == IF d = <<>> THEN "nofile" ELSE parse

\* parse is "ok" or "error" (json.load or fromisoformat raised).
load_state(d, parse, pub, lict, ds) ==
    IF d = <<>> THEN [public_ip |-> pub, last_ip_check_time |-> lict, domain_states |-> ds]
    ELSE IF parse = "ok" THEN
        [public_ip |-> d[1].public_ip,
         last_ip_check_time |-> fromisoformat(d[1].last_ip_check_time),
         domain_states |-> [n \in DOMAIN d[1].domain_states |->
                               EntryFromText(d[1].domain_states[n])]]
    ELSE [public_ip |-> None, last_ip_check_time |-> NoTime,
          domain_states |-> [n \in {} |-> EmptyEntry]]

\* run_initial_setup's loop: every SSL-enabled domain without a remembered
\* ssl_expiration gets an entry and the probed expiration probe[i].
seed_ssl(ds, probe) ==
    LET missing == { i \in 1..Len(domains) :
                        domains[i].ssl /\ EntryOf(ds, NameOf(i)).ssl_expiration = NoTime }
        idx(n) == CHOOSE i \in missing : NameOf(i) = n
    IN  [n \in DOMAIN ds \cup {NameOf(i) : i \in missing} |->
            IF n \in {NameOf(i) : i \in missing}
            THEN [EntryOf(ds, n) EXCEPT !.ssl_expiration = probe[idx(n)]]
            ELSE ds[n]]

\* --------------------------------------------------------------- log cleanup
\* config['log_retention'] is a string; it is kept here as the words that
\* retention_str.split() gives.  The clock counts days.
Retentions == { <<"2", "weeks">>, <<"1", "Weeks">>, <<"3", "weeks">>, <<"14", "days">> }

\* int(parts[0]); a word that is no number raises ValueError.
Numbers == {"1", "2", "3", "14"}
int(word) ==
    CASE word = "1" -> 1 [] word = "2" -> 2 [] word = "3" -> 3 [] word = "14" -> 14

\* unit = parts[1].lower() and the test '"week" in unit'
lower(word) == IF word = "Weeks" THEN "weeks" ELSE word
Contains(unit, part) ==
    CASE part = "day" -> unit \in {"day", "days"}
      [] part = "week" -> unit \in {"week", "weeks"}
      [] part = "month" -> unit \in {"month", "months"}
      [] part = "year" -> unit \in {"year", "years"}

\* delta_kwargs, as the one pair it holds.
delta_kwargs(retention_str) ==
    LET parts == IF Len(retention_str) # 2 THEN <<"3", "months">> ELSE retention_str
        value == IF parts[1] \notin Numbers THEN 3 ELSE int(parts[1])
        unit == lower(parts[2])
    IN  IF Contains(unit, "day") THEN <<"days", value>>
        ELSE IF Contains(unit, "week") THEN <<"weeks", value>>
        ELSE IF Contains(unit, "month") THEN <<"months", value>>
        ELSE IF Contains(unit, "year") THEN <<"years", value>>
        ELSE <<"months", 3>>

\* relativedelta(days=v) and relativedelta(weeks=v), in days.
relativedelta(kw) ==
    CASE kw[1] = "days" -> kw[2]
      [] kw[1] = "weeks" -> 7 * kw[2]

\* cutoff_date = get_current_time_in_tz() - relativedelta(**delta_kwargs)
cutoff_date(tnow, retention_str) == tnow - relativedelta(delta_kwargs(retention_str))

\* A comparison that also takes a file modified at the cutoff.
IsOld_mutle(mtime, cutoff) == mtime <= cutoff

\* datetime.fromtimestamp(os.path.getmtime(file_path), user_tz) < cutoff_date
IsOld(mtime, cutoff) == mtime < cutoff

\* The paths a listing can hold, and the modification times around the
\* cutoffs of two weeks and fourteen days.
LogPaths ==
    { <<"certs", AllNames[1], "letsencrypt.log.1">>,
      <<"certs", AllNames[1], "privkey.pem">>,
      <<"certs", AllNames[2], "letsencrypt.log">>,
      <<"logs", "domain-manager.log.1">>,
      <<"logs", "domain-manager.log">> }
MTimes == {-15, -14, -13}
Listings == { l \in SUBSET (LogPaths \X MTimes) :
                \A f \in l, g \in l : f[1] = g[1] => f = g }

\* filename.startswith("letsencrypt.log") in the directory of a configured
\* domain, filename.startswith("domain-manager.log.") in /logs.
IsCandidate(path, names) ==
    \/ path[1] = "certs" /\ path[2] \in names
                         /\ path[3] \in {"letsencrypt.log", "letsencrypt.log.1"}
    \/ path[1] = "logs" /\ path[2] \in {"domain-manager.log.1"}
Candidates(files, names) == { f \in files : IsCandidate(f[1], names) }

\* ----------------------------------------------------------------- scheduler
Intervals == {"5m", "10m", "60m", "24h", "disabled", "15m"}

\* The offsets from UTC, in minutes, of the configured timezone when
\* run_scheduler starts: UTC, America/New_York (EST), Asia/Kolkata.
UtcOffsets == {0, -300, 330}

\* get_utc_time_for_local_string: today's local hh:mm, converted to UTC and
\* formatted '%H:%M'.
get_utc_time_for_local_string(hh, mm, off) ==
    LET t == (hh * 60 + mm - off) % 1440 IN <<t \div 60, t % 60>>

\* range(start, stop, step), as the list it iterates over.
range(start, stop, step) ==
    [k \in 1..((stop - start + step - 1) \div step) |-> start + (k - 1) * step]

\* schedule.every().hour.at(":MM").do(f) and schedule.every().day.at("HH:MM").do(f)
HourlyJob(mm, f) == [unit |-> "hour", at |-> <<mm>>, do |-> f]
DailyJob(hhmm, f) == [unit |-> "day", at |-> hhmm, do |-> f]

\* An interval chain whose '5m' branch steps by ten minutes.
ddns_jobs_mut5(interval_str, off) ==
    LET every(step) == [k \in DOMAIN range(0, 60, step) |->
                           HourlyJob(range(0, 60, step)[k], "run_ddns_update")]
    IN  CASE interval_str = "5m" -> every(10)
          [] interval_str = "10m" -> every(10)
          [] interval_str = "60m" -> <<HourlyJob(0, "run_ddns_update")>>
          [] interval_str = "24h" ->
                <<DailyJob(get_utc_time_for_local_string(0, 0, off), "run_ddns_update")>>
          [] interval_str = "disabled" -> <<>>
          [] OTHER -> every(5)

\* An interval chain that registers nothing for an unrecognized value.
ddns_jobs_strict(interval_str, off) ==
    LET every(step) == [k \in DOMAIN range(0, 60, step) |->
                           HourlyJob(range(0, 60, step)[k], "run_ddns_update")]
    IN  CASE interval_str = "5m" -> every(5)
          [] interval_str = "10m" -> every(10)
          [] interval_str = "60m" -> <<HourlyJob(0, "run_ddns_update")>>
          [] interval_str = "24h" ->
                <<DailyJob(get_utc_time_for_local_string(0, 0, off), "run_ddns_update")>>
          [] interval_str = "disabled" -> <<>>
          [] OTHER -> <<>>

\* run_scheduler's interval chain: the run_ddns_update jobs it registers.
ddns_jobs(interval_str, off) ==
    LET every(step) == [k \in DOMAIN range(0, 60, step) |->
                           HourlyJob(range(0, 60, step)[k], "run_ddns_update")]
    IN  CASE interval_str = "5m" -> every(5)
          [] interval_str = "10m" -> every(10)
          [] interval_str = "60m" -> <<HourlyJob(0, "run_ddns_update")>>
          [] interval_str = "24h" ->
                <<DailyJob(get_utc_time_for_local_string(0, 0, off), "run_ddns_update")>>
          [] interval_str = "disabled" -> <<>>
          [] OTHER -> every(5)

\* schedule.jobs when run_scheduler has registered everything: the SSL check
\* at 02:30 local, the log cleanup at 03:30 local, the DDNS jobs.
run_scheduler_jobs(interval_str, off) ==
    << DailyJob(get_utc_time_for_local_string(2, 30, off), "run_ssl_check"),
       DailyJob(get_utc_time_for_local_string(3, 30, off), "run_log_cleanup") >>
    \o ddns_jobs(interval_str, off)

\* The jobs of js that call f; schedule.run_pending() can only run those.
JobsFor(js, f) == { k \in DOMAIN js : js[k].do = f }
Registered(js, f) == JobsFor(js, f) # {}
DdnsRegistered(js) == Registered(js, "run_ddns_update")

\* A run_first_check that 'disabled' does not clear.
run_first_check_always(interval_str) == TRUE

\* run_first_check stays set for every value but 'disabled'.
run_first_check(interval_str) == interval_str # "disabled"

\* ------------------------------------------------------------------- threads
IdleCycle == [pc |-> "idle", ip |-> None, i |-> 0, lict_writes |-> 0, saves |-> 0]
NoTally == [notes |-> 0, lost |-> 0]
NoWorker == [st |-> "none", i |-> 0, processed |-> {}, certs |-> {}, naps |-> <<>>]

\* A thread inside run_ddns_update or run_ssl_check.
Busy(t) == cyc[t].pc = "loop" \/ trig[t] = "clear"

\* A thread list that keeps a worker that died of an exception.
Alive_mutdead(w) == worker[w].st \in {"run", "nap", "dead"}

\* threading.enumerate() lists the worker: started and not yet returned.
Alive(w) == worker[w].st \in {"run", "nap"}

\* A scan that never finds the worker (it looks for another thread name).
WorkerRunning_never == FALSE

\* The scan of run_ssl_check: some live thread is named SSL_Worker_Thread.
WorkerRunning == \E w \in Threads : Alive(w)

\* A scheduler thread that runs its tasks from the start on.
MayCall_mutearly(t) == ~Busy(t)

\* The scheduler thread may run a due task; the UI thread may serve a request.
MayCall(t) == ~Busy(t) /\ (t = "sched" => sched_pc = "loop")
MayRun(t, f) == MayCall(t) /\ (t = "sched" => Registered(jobs, f))
MayStartCycle(t) ==
    /\ ~Busy(t)
    /\ t = "sched" => \/ sched_pc = "eager"
                      \/ sched_pc = "loop" /\ DdnsRegistered(jobs)

\* An exception leaving run_ddns_update or run_ssl_check: the trigger routes
\* catch it; run_scheduler does not, and its thread ends.
AfterRaise(t) == IF t = "sched" THEN "dead" ELSE sched_pc

\* The eager startup cycle has returned: run_scheduler enters its loop.
AfterCycle(t) == IF t = "sched" /\ sched_pc = "eager" THEN "loop" ELSE sched_pc

\* The process has started: app_state holds its defaults, run_scheduler has
\* registered nothing yet, STATE_FILE is one of files, the notification
\* channels are one of chans, the timezone's offset one of zones, the
\* retention one of retentions and the log files one of listings.
InitLogs(configs, intervals, files, chans, zones, retentions, listings) ==
    /\ domains \in configs
    /\ log_retention \in retentions
    /\ logs \in listings
    /\ ip_check_interval \in intervals
    /\ channels \in chans
    /\ timezone \in zones
    /\ jobs = <<>>
    /\ notifications_enabled \in BOOLEAN
    /\ disk_writable \in BOOLEAN
    /\ public_ip = None
    /\ last_ip_check_time = NoTime
    /\ domain_states = [n \in {} |-> EmptyEntry]
    /\ disk \in files
    /\ now = 0
    /\ sched_pc = "setup"
    /\ cyc = [t \in Threads |-> IdleCycle]
    /\ trig = [t \in Threads |-> "idle"]
    /\ worker = [t \in Threads |-> NoWorker]
    /\ tally = NoTally
    /\ saver = IdleSaver
    /\ last = NoEvent

\* ... without log files, log_retention '2 weeks'.
InitZone(configs, intervals, files, chans, zones) ==
    InitLogs(configs, intervals, files, chans, zones, {<<"2", "weeks">>}, {{}})

\* ... in UTC.
InitAll(configs, intervals, files, chans) == InitZone(configs, intervals, files, chans, {0})

\* ... with SMTP as the one notification channel.
InitOn(configs, intervals, files) == InitAll(configs, intervals, files, {DefaultChannels})

\* ... on a first start, without a state file.
InitWith(configs, intervals) == InitOn(configs, intervals, {<<>>})

\* ------------------------------------------------------------------- actions
\* run_scheduler up to its eager cycle: it registers its jobs and calls
\* run_initial_setup.
run_initial_setup ==
    /\ sched_pc = "setup"
    /\ LockFree
    /\ jobs' = run_scheduler_jobs(ip_check_interval, timezone)
    /\ \E parse \in ParseResults(disk), io \in SaveResults,
          probe \in [1..Len(domains) -> CertReads] :
          LET l == load_state(disk, parse, public_ip, last_ip_check_time, domain_states)
              ds == seed_ssl(l.domain_states, probe)
          IN  /\ public_ip' = l.public_ip
              /\ last_ip_check_time' = l.last_ip_check_time
              /\ domain_states' = ds
              /\ disk' = save_state(disk, io, l.public_ip, l.last_ip_check_time, ds)
              /\ last' = [NoEvent EXCEPT !.op = "initial_setup", !.t = "sched",
                                         !.saved = (io = "ok"),
                                         !.loaded = LoadOutcome(disk, parse)]
    /\ sched_pc' = IF run_first_check(ip_check_interval) THEN "eager" ELSE "loop"
    /\ UNCHANGED <<config_vars, logs, now, cyc, trig, worker, tally, saver>>

\* run_ddns_update, from its start to the domain loop (or to the return of
\* the resolution-failure branch).
ddns_resolve(t) ==
    /\ MayStartCycle(t)
    /\ now < MaxTime
    /\ now' = now + 1
    /\ \E new_public_ip \in IPs \cup {None}, io \in SaveResults :
          LET r == ddns_resolve_step(public_ip, new_public_ip,
                                     notifications_enabled, now + 1)
              pub == LastWrite(r.writes, "public_ip", public_ip)
              lict == LastWrite(r.writes, "last_ip_check_time", last_ip_check_time)
              n == WriteCount(r.writes, "last_ip_check_time")
          IN  /\ public_ip' = pub
              /\ last_ip_check_time' = lict
              /\ saver' = Observe(saver, pub, lict, domain_states)
              /\ IF r.failed
                 THEN /\ LockFree
                      /\ disk' = save_state(disk, io, pub, lict, domain_states)
                      /\ cyc' = [cyc EXCEPT ![t] =
                                   [pc |-> "done", ip |-> None, i |-> 0,
                                    lict_writes |-> n, saves |-> 1]]
                      /\ sched_pc' = AfterCycle(t)
                 ELSE /\ disk' = disk
                      /\ cyc' = [cyc EXCEPT ![t] =
                                   [pc |-> "loop", ip |-> new_public_ip, i |-> 1,
                                    lict_writes |-> n, saves |-> 0]]
                      /\ sched_pc' = sched_pc
              /\ tally' = [notes |-> tally.notes + Len(r.notes),
                           lost |-> tally.lost +
                                    (IF public_ip # None /\ pub = None THEN 1 ELSE 0)]
              /\ last' = [NoEvent EXCEPT !.op = "ddns_resolve", !.t = t,
                                         !.resolved = new_public_ip,
                                         !.prev_ip = public_ip,
                                         !.notes = r.notes,
                                         !.saved = (r.failed /\ io = "ok")]
    /\ UNCHANGED <<config_vars, logs, jobs, domain_states, trig, worker>>

\* One iteration of "for domain_config in config.get_domains()".
ddns_domain(t) ==
    /\ cyc[t].pc = "loop"
    /\ cyc[t].i <= Len(domains)
    /\ LET dc == domains[cyc[t].i]
           ds == Put(domain_states, dc.name, EntryOf(domain_states, dc.name))
           ev == [NoEvent EXCEPT !.op = "ddns_domain", !.t = t, !.d = dc.name,
                                 !.prev_ip = cyc[t].ip]
       IN  IF ~dc.ddns
           THEN /\ domain_states' = ds
                /\ cyc' = [cyc EXCEPT ![t].i = @ + 1]
                /\ sched_pc' = sched_pc
                /\ last' = ev
           ELSE \E answer \in RecordValues \cup {ClientError, Raise},
                   upd \in {"ok", "fail", Raise} :
                IF answer = Raise
                THEN /\ domain_states' = ds
                     /\ cyc' = [cyc EXCEPT ![t].pc = "raised"]
                     /\ sched_pc' = AfterRaise(t)
                     /\ last' = [ev EXCEPT !.gets = <<dc.name>>, !.raised = TRUE,
                                           !.answer = answer]
                ELSE LET rec == get_a_record_ip(answer)
                         r == ddns_domain_step(dc, ds[dc.name], cyc[t].ip, rec, upd,
                                               now, notifications_enabled)
                     IN  /\ domain_states' = [ds EXCEPT ![dc.name] = r.entry]
                         /\ cyc' = IF r.raised
                                   THEN [cyc EXCEPT ![t].pc = "raised"]
                                   ELSE [cyc EXCEPT ![t].i = @ + 1]
                         /\ sched_pc' = IF r.raised THEN AfterRaise(t) ELSE sched_pc
                         /\ last' = [ev EXCEPT !.gets = <<dc.name>>, !.queried = rec,
                                               !.answer = answer,
                                               !.sets = r.sets, !.notes = r.notes,
                                               !.upd = IF r.sets = <<>> THEN "-" ELSE upd,
                                               !.raised = r.raised]
    /\ saver' = Observe(saver, public_ip, last_ip_check_time, domain_states')
    /\ UNCHANGED <<config_vars, logs, jobs, public_ip, last_ip_check_time, disk, now, trig,
                   worker, tally>>

\* The save_state() that ends run_ddns_update.
ddns_save(t) ==
    /\ cyc[t].pc = "loop"
    /\ cyc[t].i > Len(domains)
    /\ LockFree
    /\ \E io \in SaveResults :
          /\ disk' = save_state(disk, io, public_ip, last_ip_check_time, domain_states)
          /\ last' = [NoEvent EXCEPT !.op = "ddns_save", !.t = t, !.saved = (io = "ok")]
    /\ cyc' = [cyc EXCEPT ![t].pc = "done", ![t].saves = @ + 1]
    /\ sched_pc' = AfterCycle(t)
    /\ UNCHANGED <<config_vars, logs, jobs, state_vars, now, trig, worker, tally, saver>>

\* run_ssl_check, the scan of threading.enumerate(): a trigger that finds a
\* worker returns, the others go on to start one.
ssl_scan(t) ==
    /\ MayRun(t, "run_ssl_check")
    /\ trig' = [trig EXCEPT ![t] = IF WorkerRunning THEN "idle" ELSE "clear"]
    /\ last' = [NoEvent EXCEPT !.op = "ssl_scan", !.t = t, !.found = WorkerRunning]
    /\ UNCHANGED <<config_vars, logs, jobs, state_vars, disk, now, sched_pc, cyc, worker, tally,
                   saver>>

\* A run_ssl_check that starts the worker and does not return.
ssl_start_mutjoin(t) ==
    /\ trig[t] = "clear"
    /\ ~Alive(t)
    /\ worker' = [worker EXCEPT ![t] = [NoWorker EXCEPT !.st = "run", !.i = 1]]
    /\ last' = [NoEvent EXCEPT !.op = "ssl_start", !.t = t]
    /\ UNCHANGED <<config_vars, logs, jobs, state_vars, disk, now, sched_pc, cyc, trig,
                   tally, saver>>

\* run_ssl_check, threading.Thread(...).start().
ssl_start(t) ==
    /\ trig[t] = "clear"
    /\ trig' = [trig EXCEPT ![t] = "idle"]
    /\ worker' = [worker EXCEPT ![t] = [NoWorker EXCEPT !.st = "run", !.i = 1]]
    /\ last' = [NoEvent EXCEPT !.op = "ssl_start", !.t = t]
    /\ UNCHANGED <<config_vars, logs, jobs, state_vars, disk, now, sched_pc, cyc, tally, saver>>

\* _run_ssl_check_thread, one iteration of its loop up to the nap.
worker_domain(w) ==
    /\ worker[w].st = "run"
    /\ worker[w].i <= Len(domains)
    /\ LET i == worker[w].i
           dc == domains[i]
           ev == [NoEvent EXCEPT !.op = "worker_domain", !.t = w, !.d = dc.name]
       IN  IF ~dc.ssl
           THEN /\ worker' = [worker EXCEPT ![w].i = i + 1]
                /\ last' = [ev EXCEPT !.op = "worker_skip"]
                /\ UNCHANGED <<domain_states, disk>>
           ELSE \E cert1 \in CertReads, renew \in RenewalResults,
                   cert2 \in CertReads, io \in SaveResults :
                LET r == ssl_domain_step(dc, domain_states, cert1, renew, cert2,
                                         now, notifications_enabled)
                IN  IF r.raised
                    THEN /\ worker' = [worker EXCEPT ![w].st = "dead"]
                         /\ last' = [ev EXCEPT !.renews = r.renews, !.raised = TRUE,
                                               !.renewal = IF r.renews = <<>>
                                                           THEN <<>> ELSE <<renew>>,
                                               !.creates = r.creates,
                                               !.queried = IF cert1 = NoTime
                                                           THEN None ELSE "cert"]
                         /\ UNCHANGED <<domain_states, disk>>
                    ELSE /\ LockFree
                         /\ domain_states' = r.ds
                         /\ disk' = save_state(disk, io, public_ip,
                                               last_ip_check_time, r.ds)
                         /\ worker' = [worker EXCEPT
                               ![w].processed = @ \cup {i},
                               ![w].certs = IF cert1 # NoTime THEN @ \cup {i} ELSE @,
                               ![w].st = IF NapAfter(i, Len(domains)) = "none"
                                         THEN "run" ELSE "nap",
                               ![w].i = IF NapAfter(i, Len(domains)) = "none"
                                        THEN i + 1 ELSE i]
                         /\ last' = [ev EXCEPT !.renews = r.renews, !.notes = r.notes,
                                               !.renewal = IF r.renews = <<>>
                                                           THEN <<>> ELSE <<renew>>,
                                               !.reread = IF r.reads = 2
                                                          THEN <<cert2>> ELSE <<>>,
                                               !.creates = r.creates,
                                               !.queried = IF cert1 = NoTime
                                                           THEN None ELSE "cert",
                                               !.saved = (io = "ok")]
    /\ UNCHANGED <<config_vars, logs, jobs, public_ip, last_ip_check_time, now, sched_pc, cyc,
                   trig, tally, saver>>

\* time.sleep(10800) or time.sleep(600) between two domains.
worker_nap(w) ==
    /\ worker[w].st = "nap"
    /\ worker' = [worker EXCEPT
          ![w].st = "run",
          ![w].i = @ + 1,
          ![w].naps = Append(@, NapAfter(worker[w].i, Len(domains)))]
    /\ last' = [NoEvent EXCEPT !.op = "worker_nap", !.t = w]
    /\ UNCHANGED <<config_vars, logs, jobs, state_vars, disk, now, sched_pc, cyc, trig, tally,
                   saver>>

\* The worker's loop is over and its thread ends.
worker_exit(w) ==
    /\ worker[w].st = "run"
    /\ worker[w].i > Len(domains)
    /\ worker' = [worker EXCEPT ![w].st = "done"]
    /\ last' = [NoEvent EXCEPT !.op = "worker_exit", !.t = w]
    /\ UNCHANGED <<config_vars, logs, jobs, state_vars, disk, now, sched_pc, cyc, trig, tally,
                   saver>>

\* run_log_cleanup, a scheduled task: os.remove is called on every candidate
\* older than the cutoff; every failure is caught inside it, that of an
\* os.remove silently.
run_log_cleanup ==
    /\ MayRun("sched", "run_log_cleanup")
    /\ LET cutoff == cutoff_date(now, log_retention)
           old == { f \in Candidates(logs, ConfigNames) : IsOld(f[2], cutoff) }
       IN  \E rm \in [old -> {"ok", "oserror"}] :
              /\ logs' = logs \ { f \in old : rm[f] = "ok" }
              /\ last' = [NoEvent EXCEPT !.op = "log_cleanup", !.t = "sched",
                                         !.removes = old]
    /\ UNCHANGED <<config_vars, jobs, state_vars, disk, now, sched_pc, cyc, trig, worker,
                   tally, saver>>

\* GET /api/refresh_ip/<domain_name>, up to its save_state(): the record is
\* read and stored in the domain's entry (created if missing); an exception
\* is caught by the route.
refresh_ip(name) ==
    /\ ~Busy("ui")
    /\ saver.pc = "idle"
    /\ \E rec \in RecordValues \cup {Raise} :
          LET ev == [NoEvent EXCEPT !.op = "refresh_ip", !.t = "ui", !.d = name,
                                    !.gets = <<name>>]
          IN  IF rec = Raise
              THEN /\ last' = [ev EXCEPT !.raised = TRUE]
                   /\ UNCHANGED <<domain_states, saver>>
              ELSE /\ domain_states' =
                         Put(domain_states, name,
                             [EntryOf(domain_states, name) EXCEPT !.recorded_ip = rec])
                   /\ saver' = [IdleSaver EXCEPT !.pc = "enter"]
                   /\ last' = [ev EXCEPT !.queried = rec]
    /\ UNCHANGED <<config_vars, logs, jobs, public_ip, last_ip_check_time, disk, now, sched_pc,
                   cyc, trig, worker, tally>>

\* A force update that does not look at the stored public IP.
ForceAllowed_mutany(enabled, pub) == enabled

\* The two refusals of trigger_force_update_ip: the domain must be configured
\* with ddns on and app_state's public_ip must be known.
ForceAllowed(enabled, pub) == enabled /\ pub # None

\* POST /api/force_update_ip/<domain_name>: refused for a domain that is not
\* configured for DDNS and while the public IP is unknown; otherwise the
\* record is set to the stored public IP and, on success, the entry and the
\* state file are updated.  An exception (of the provider call, or the
\* KeyError of a domain without an entry) is caught by the route.
force_update_ip(name) ==
    /\ ~Busy("ui")
    /\ saver.pc = "idle"
    /\ \E upd \in {"ok", "fail", Raise}, io \in SaveResults :
          LET ev == [NoEvent EXCEPT !.op = "force_update_ip", !.t = "ui", !.d = name,
                                    !.prev_ip = public_ip]
              call == << <<name, public_ip>> >>
              enabled == \E i \in 1..Len(domains) : NameOf(i) = name /\ domains[i].ddns
          IN  IF ~ForceAllowed(enabled, public_ip)
              THEN /\ last' = ev
                   /\ UNCHANGED <<domain_states, disk>>
              ELSE IF upd = Raise \/ (upd = "ok" /\ name \notin DOMAIN domain_states)
              THEN /\ last' = [ev EXCEPT !.sets = call, !.upd = upd, !.raised = TRUE]
                   /\ UNCHANGED <<domain_states, disk>>
              ELSE IF upd = "ok"
              THEN LET ds == [domain_states EXCEPT
                                 ![name].recorded_ip = public_ip,
                                 ![name].last_update_time = At(now)]
                   IN  /\ domain_states' = ds
                       /\ disk' = save_state(disk, io, public_ip, last_ip_check_time, ds)
                       /\ last' = [ev EXCEPT !.sets = call, !.upd = upd,
                                             !.saved = (io = "ok")]
              ELSE /\ last' = [ev EXCEPT !.sets = call, !.upd = upd]
                   /\ UNCHANGED <<domain_states, disk>>
    /\ UNCHANGED <<config_vars, logs, jobs, public_ip, last_ip_check_time, now, sched_pc,
                   cyc, trig, worker, tally, saver>>

\* save_state of the refresh route: "with state_lock" is entered and
\* copy.deepcopy(app_state) copies public_ip and last_ip_check_time and
\* starts to iterate over domain_states.
save_enter ==
    /\ saver.pc = "enter"
    /\ saver' = [pc |-> "copy",
                 head |-> <<Memory(public_ip, last_ip_check_time, <<>>)>>,
                 size |-> Cardinality(DOMAIN domain_states),
                 todo |-> KeysInOrder(domain_states),
                 copy |-> [n \in {} |-> EmptyEntry],
                 seen |-> {Memory(public_ip, last_ip_check_time, domain_states)}]
    /\ last' = [NoEvent EXCEPT !.op = "save_enter", !.t = "ui"]
    /\ UNCHANGED <<config_vars, logs, jobs, state_vars, disk, now, sched_pc, cyc, trig, worker,
                   tally>>

\* The dictionary iterator finds domain_states at the length it had when the
\* iteration began and yields the next entry, which is copied.
save_copy ==
    /\ saver.pc = "copy"
    /\ Cardinality(DOMAIN domain_states) = saver.size
    /\ saver.todo # <<>>
    /\ LET copy == Put(saver.copy, Head(saver.todo), domain_states[Head(saver.todo)])
       IN  saver' = [saver EXCEPT
                        !.copy = copy,
                        !.todo = Tail(@),
                        !.seen = { m \in @ : Agrees(m, saver.head, copy) }]
    /\ last' = [NoEvent EXCEPT !.op = "save_copy", !.t = "ui", !.d = Head(saver.todo)]
    /\ UNCHANGED <<config_vars, logs, jobs, state_vars, disk, now, sched_pc, cyc, trig, worker,
                   tally>>

\* The iterator finds that domain_states has changed size: RuntimeError,
\* caught and logged by save_state; nothing is written.
save_fail ==
    /\ saver.pc = "copy"
    /\ Cardinality(DOMAIN domain_states) # saver.size
    /\ saver' = IdleSaver
    /\ last' = [NoEvent EXCEPT !.op = "save_state", !.t = "ui", !.raised = TRUE]
    /\ UNCHANGED <<config_vars, logs, jobs, state_vars, disk, now, sched_pc, cyc, trig, worker,
                   tally>>

\* The iteration is over: the copy is converted and written, the lock
\* released.
save_write ==
    /\ saver.pc = "copy"
    /\ Cardinality(DOMAIN domain_states) = saver.size
    /\ saver.todo = <<>>
    /\ \E io \in SaveResults :
          /\ disk' = save_state(disk, io, saver.head[1].public_ip,
                                saver.head[1].last_ip_check_time, saver.copy)
          /\ last' = [NoEvent EXCEPT !.op = "save_state", !.t = "ui",
                                     !.saved = (io = "ok")]
    /\ saver' = IdleSaver
    /\ UNCHANGED <<config_vars, logs, jobs, state_vars, now, sched_pc, cyc, trig, worker, tally>>

\* NotificationService.send_test_notification: both handlers run and _send
\* returns the overall status.
send_test_notification ==
    /\ ~Busy("ui")
    /\ \E smtp_ok \in BOOLEAN, apprise_ok \in BOOLEAN :
          LET svc == NotificationService(channels, notifications_enabled)
          IN  last' = [NoEvent EXCEPT
                          !.op = "send_test", !.t = "ui",
                          !.fanout = << [smtp_ok |-> smtp_ok, apprise_ok |-> apprise_ok,
                                         result |-> _send(svc, smtp_ok, apprise_ok)] >>]
    /\ UNCHANGED <<config_vars, logs, jobs, state_vars, disk, now, sched_pc, cyc, trig, worker,
                   tally, saver>>

\* The scheduler thread with every task it runs and the worker it starts.
\* Its configurations use each domain for DDNS or for a certificate (or for
\* neither) and leave auto_update and notifications at their defaults
\* (domain_config.get('auto_update', True), .get('notifications', True)).
SchedConfigs ==
    { d \in Configs : \A i \in 1..Len(d) :
         d[i].auto_update /\ d[i].notifications /\ ~(d[i].ddns /\ d[i].ssl) }
Init == InitWith(SchedConfigs, {"5m"})
Next ==
    \/ run_initial_setup
    \/ ddns_resolve("sched")
    \/ ddns_domain("sched")
    \/ ddns_save("sched")
    \/ ssl_scan("sched")
    \/ ssl_start("sched")
    \/ worker_domain("sched")
    \/ worker_nap("sched")
    \/ worker_exit("sched")
    \/ run_log_cleanup
Spec == Init /\ [][Next]_vars

\* The DDNS reconciler alone: configurations without SSL, the cycles of the
\* scheduler thread.
DdnsConfigs == { d \in Configs : \A i \in 1..Len(d) : ~d[i].ssl }
InitDdns == InitWith(DdnsConfigs, {"5m"})
NextDdns ==
    \/ run_initial_setup
    \/ ddns_resolve("sched")
    \/ ddns_domain("sched")
    \/ ddns_save("sched")
SpecDdns == InitDdns /\ [][NextDdns]_vars

\* The certificate batch under manual triggers: configurations without DDNS
\* (no DDNS-enabled domain, ip_check_interval 'disabled'), the scheduler
\* thread's initial setup, the UI's SSL trigger and the worker it starts.
SslConfigs == { d \in Configs : \A i \in 1..Len(d) : ~d[i].ddns }
InitSsl == InitWith(SslConfigs, {"disabled"})
NextSsl ==
    \/ run_initial_setup
    \/ ssl_scan("ui")
    \/ ssl_start("ui")
    \/ worker_domain("ui")
    \/ worker_nap("ui")
    \/ worker_exit("ui")
SpecSsl == InitSsl /\ [][NextSsl]_vars

\* The single-flight guard: the SSL triggers of the scheduler thread and of
\* the UI racing, and the workers they start, on configurations without DDNS
\* whose domains leave auto_update and notifications at their defaults.
TriggerConfigs ==
    { d \in SslConfigs : \A i \in 1..Len(d) : d[i].auto_update /\ d[i].notifications }
InitTrigger == InitWith(TriggerConfigs, {"disabled"})
NextTrigger ==
    \/ run_initial_setup
    \/ \E t \in Threads : ssl_scan(t)
    \/ \E t \in Threads : ssl_start(t)
    \/ \E w \in Threads : worker_domain(w)
    \/ \E w \in Threads : worker_nap(w)
    \/ \E w \in Threads : worker_exit(w)
SpecTrigger == InitTrigger /\ [][NextTrigger]_vars

\* The UI's SSL trigger and its worker on the configurations of the
\* single-flight guard, with the progress a worker thread makes: it is a
\* thread of its own that the interpreter keeps scheduling, each of its
\* collaborator calls returns or raises, and each time.sleep returns.
WorkerProgress ==
    /\ WF_vars(worker_domain("ui"))
    /\ WF_vars(worker_nap("ui"))
    /\ WF_vars(worker_exit("ui"))
SpecRelease == InitTrigger /\ [][NextSsl]_vars /\ WorkerProgress

\* The state store across a start: STATE_FILE is absent or was left corrupt
\* by the previous run, ip_check_interval is 'disabled', and the UI's DDNS
\* trigger (POST /api/trigger/ddns) runs cycles in its request thread while
\* the scheduler thread gets to run_initial_setup.
StoreConfigs ==
    { d \in DdnsConfigs : \A i \in 1..Len(d) : d[i].auto_update /\ d[i].notifications }
InitStore == InitOn(StoreConfigs, {"disabled"}, {<<>>, <<Corrupt>>})
NextStore ==
    \/ run_initial_setup
    \/ ddns_resolve("ui")
    \/ ddns_domain("ui")
    \/ ddns_save("ui")
SpecStore == InitStore /\ [][NextStore]_vars

\* The state lock: the scheduler thread's startup and DDNS cycles on
\* configurations of DDNS-enabled domains with default flags, a writable
\* STATE_FILE and notifications globally off, while the UI serves refresh
\* requests for the first domain whose save_state copies app_state step by
\* step.
SaveConfigs == { d \in StoreConfigs : \A i \in 1..Len(d) : d[i].ddns }
InitSave ==
    /\ InitWith(SaveConfigs, {"5m"})
    /\ disk_writable
    /\ ~notifications_enabled
NextSave ==
    \/ run_initial_setup
    \/ ddns_resolve("sched")
    \/ ddns_domain("sched")
    \/ ddns_save("sched")
    \/ refresh_ip(NameOf(1))
    \/ save_enter
    \/ save_copy
    \/ save_fail
    \/ save_write
SpecSave == InitSave /\ [][NextSave]_vars

\* The notification fan-out: every channel configuration, test notifications
\* sent from the UI.
InitNotify == InitAll(SaveConfigs, {"disabled"}, {<<>>}, ChannelConfigs)
NextNotify ==
    \/ run_initial_setup
    \/ send_test_notification
SpecNotify == InitNotify /\ [][NextNotify]_vars

\* The registration of run_scheduler: every ip_check_interval value and three
\* timezones, one configured domain, the scheduler thread with the tasks it
\* runs.
OneDomainConfigs == { d \in SchedConfigs : Len(d) = 1 }
InitSched == InitZone(OneDomainConfigs, Intervals, {<<>>}, {DefaultChannels}, UtcOffsets)
NextSched ==
    \/ run_initial_setup
    \/ ddns_resolve("sched")
    \/ ddns_domain("sched")
    \/ ddns_save("sched")
    \/ ssl_scan("sched")
    \/ ssl_start("sched")
    \/ worker_domain("sched")
    \/ worker_exit("sched")
    \/ run_log_cleanup
SpecSched == InitSched /\ [][NextSched]_vars

\* The log cleanup: every listing of log files and every retention, the
\* scheduler thread's startup and its cleanup task, on configurations of
\* domains with default flags and without certificates.
InitCleanup ==
    /\ InitLogs(StoreConfigs, {"disabled"}, {<<>>}, {DefaultChannels}, {0},
                Retentions, Listings)
    /\ disk_writable
    /\ ~notifications_enabled
NextCleanup ==
    \/ run_initial_setup
    \/ run_log_cleanup
SpecCleanup == InitCleanup /\ [][NextCleanup]_vars

\* The force-update route: the scheduler thread's startup and DDNS cycles on
\* configurations of domains with default flags, while the UI forces updates
\* of domain names, configured or not.
InitForce == InitWith(StoreConfigs, {"5m"})
NextForce ==
    \/ run_initial_setup
    \/ ddns_resolve("sched")
    \/ ddns_domain("sched")
    \/ ddns_save("sched")
    \/ \E i \in 1..MaxDomains : force_update_ip(AllNames[i])
SpecForce == InitForce /\ [][NextForce]_vars

\* The alert flags: one configured domain with every combination of its
\* flags, the scheduler thread with its DDNS cycles and the SSL batch it
\* starts.
AnyFlagsConfigs == { d \in Configs : Len(d) = 1 }
InitAlerts == InitWith(AnyFlagsConfigs, {"5m"})
NextAlerts ==
    \/ run_initial_setup
    \/ ddns_resolve("sched")
    \/ ddns_domain("sched")
    \/ ddns_save("sched")
    \/ ssl_scan("sched")
    \/ ssl_start("sched")
    \/ worker_domain("sched")
    \/ worker_exit("sched")
SpecAlerts == InitAlerts /\ [][NextAlerts]_vars

\* ==================================================================== claims
ConfigOf(name) == domains[CHOOSE i \in 1..Len(domains) : domains[i].name = name]
AlertsFor(name) == notifications_enabled /\ ConfigOf(name).notifications
AliveWorkers == { w \in Threads : worker[w].st \in {"run", "nap"} }
FailureNotes(notes) ==
    Cardinality({ k \in DOMAIN notes : notes[k].kind = "DDNS IP Check FAILED" })

\* The last step was an iteration of the DDNS domain loop that read the
\* record of a DDNS-enabled domain.
QueriedDomain ==
    /\ last.op = "ddns_domain"
    /\ last.gets # <<>>
    /\ (~last.raised \/ last.sets # <<>>)
\* ... and found a record that is no alias and differs from the resolved IP.
Mismatch ==
    /\ QueriedDomain
    /\ last.queried \notin AliasValues
    /\ last.queried # last.prev_ip

\* C1: at most one SSL batch worker is running at any instant, under every
\* interleaving of run_ssl_check calls of the scheduler thread and the UI.
C1_AtMostOneWorker == Cardinality(AliveWorkers) <= 1

\* C2: a run_ssl_check trigger that arrives while a worker is running is
\* dropped and never queued: the scan that finds a worker starts nothing and
\* leaves nothing pending, a worker starts only in the start step of a trigger
\* whose scan found none, and a trigger gets to its start step only by a scan
\* made while no worker was running.
C2_DroppedNeverQueued ==
    [][ /\ \A t \in Threads :
              (AliveWorkers # {} /\ last'.op = "ssl_scan" /\ last'.t = t)
                  => (worker' = worker /\ trig'[t] = "idle")
        /\ \A w \in Threads :
              (w \notin AliveWorkers /\ worker'[w].st \in {"run", "nap"})
                  => (last'.op = "ssl_start" /\ last'.t = w /\ trig[w] = "clear")
        /\ \A t \in Threads :
              (trig[t] = "idle" /\ trig'[t] = "clear")
                  => (AliveWorkers = {} /\ last'.op = "ssl_scan" /\ last'.t = t)
      ]_vars

\* C2's case: a scan has just found a running worker and returned.
C2_Witness ==
    /\ last.op = "ssl_scan"
    /\ last.found
    /\ AliveWorkers # {}
    /\ trig[last.t] = "idle"

\* C3: no failure raised inside a scheduled task escapes the scheduler loop;
\* the loop keeps running.
C3_LoopKeepsRunning == sched_pc # "dead"

\* C4: a failure while processing one domain does not abort the SSL batch:
\* when the worker has ended, every SSL-enabled domain that comes after
\* another SSL-enabled domain in configuration order has been processed.
C4_BatchNotAborted ==
    \A w \in Threads :
        worker[w].st \in {"done", "dead"} =>
            \A j \in 1..Len(domains) :
                (domains[j].ssl /\ \E k \in 1..(j - 1) : domains[k].ssl)
                    => j \in worker[w].processed

\* C5: in a DDNS cycle, for any value of auto_update, the provider update is
\* never invoked for a domain whose queried record value carries the alias
\* sentinel, and no alias value is ever passed to it.
C5_AliasNeverUpdated ==
    last.op = "ddns_domain" =>
        /\ last.queried \in AliasValues => last.sets = <<>>
        /\ \A k \in DOMAIN last.sets : last.sets[k][2] \notin AliasValues

\* C5's case: an alias record read for a domain with auto_update on.
C5_Witness ==
    /\ QueriedDomain
    /\ last.queried \in AliasValues
    /\ last.prev_ip \in IPs
    /\ ConfigOf(last.d).auto_update

\* C6: every DDNS cycle writes last_ip_check_time exactly once, whether the
\* public-IP resolution succeeds or fails; the value is the time of the
\* resolution.
C6_CheckTimeOncePerCycle ==
    /\ \A t \in Threads : cyc[t].pc # "idle" => cyc[t].lict_writes = 1
    /\ last.op = "ddns_resolve" => last_ip_check_time = At(now)

\* C6's case: a cycle whose resolution failed has returned.
C6_Witness ==
    /\ last.op = "ddns_resolve"
    /\ last.resolved = None
    /\ cyc[last.t].pc = "done"
    /\ cyc[last.t].lict_writes = 1

\* C7 as claimed: when all resolvers fail, exactly one failure notification is
\* emitted if public_ip was known before the cycle and none if it was null,
\* public_ip becomes null, and the notifications so far are as many as the
\* known-to-unknown transitions of public_ip.
C7_Original ==
    /\ (last.op = "ddns_resolve" /\ last.resolved = None) =>
          /\ public_ip = None
          /\ FailureNotes(last.notes) = IF last.prev_ip # None THEN 1 ELSE 0
    /\ tally.notes = tally.lost

\* C7 as amended: the notification is emitted when public_ip was known before
\* the cycle and notifications are globally enabled, and in no other case;
\* public_ip becomes null in every case; the notifications so far are as many
\* as the known-to-unknown transitions made with notifications globally
\* enabled.
C7_FailureNotifiedOnTransition ==
    /\ (last.op = "ddns_resolve" /\ last.resolved = None) =>
          /\ public_ip = None
          /\ FailureNotes(last.notes) =
                IF last.prev_ip # None /\ notifications_enabled THEN 1 ELSE 0
    /\ tally.notes = IF notifications_enabled THEN tally.lost ELSE 0

\* C7's case: a resolution has failed after the IP was known, with
\* notifications enabled, and was notified once.
C7_Witness ==
    /\ last.op = "ddns_resolve"
    /\ last.resolved = None
    /\ last.prev_ip \in IPs
    /\ notifications_enabled
    /\ FailureNotes(last.notes) = 1
    /\ tally.notes = 1
    /\ tally.lost = 1

\* C8: for a DDNS-enabled domain with auto_update=false whose queried record
\* differs from the resolved public IP and is no alias, the cycle issues no
\* provider update, leaves recorded_ip at the queried value and emits a
\* mismatch notification when alerts are enabled.
C8_MismatchWithoutAutoUpdate ==
    (Mismatch /\ ~ConfigOf(last.d).auto_update) =>
        /\ last.sets = <<>>
        /\ domain_states[last.d].recorded_ip = last.queried
        /\ AlertsFor(last.d) =>
              last.notes = << Note("DDNS IP Mismatch DETECTED", last.d,
                                   last.prev_ip, last.queried) >>

\* C8's case: a mismatch on a domain with auto_update off and alerts on.
C8_Witness ==
    /\ Mismatch
    /\ ~ConfigOf(last.d).auto_update
    /\ AlertsFor(last.d)
    /\ last.queried \in IPs
    /\ last.notes # <<>>

\* C9: for a DDNS-enabled domain with auto_update=true whose queried record
\* differs from the resolved public IP and is no alias, the cycle invokes the
\* provider update with exactly the resolved public IP; when the update
\* succeeds recorded_ip becomes that IP and the notification, if alerts are
\* enabled, carries the new IP and the old recorded value.
C9_MismatchWithAutoUpdate ==
    (Mismatch /\ ConfigOf(last.d).auto_update) =>
        /\ last.sets = << <<last.d, last.prev_ip>> >>
        /\ last.upd = "ok" =>
              /\ domain_states[last.d].recorded_ip = last.prev_ip
              /\ AlertsFor(last.d) =>
                    last.notes = << Note("DDNS IP Updated", last.d,
                                         last.prev_ip, last.queried) >>

\* C9's case: a successful update of a record that held another IP, alerts on.
C9_Witness ==
    /\ Mismatch
    /\ ConfigOf(last.d).auto_update
    /\ last.upd = "ok"
    /\ last.queried \in IPs
    /\ AlertsFor(last.d)
    /\ domain_states[last.d].recorded_ip = last.prev_ip

\* C10: when the provider update attempted in a DDNS cycle fails, recorded_ip
\* is left at the value queried from the provider and a failure notification
\* is emitted when alerts are enabled.
C10_FailedUpdate ==
    (QueriedDomain /\ last.sets # <<>> /\ last.upd # "ok") =>
        /\ domain_states[last.d].recorded_ip = last.queried
        /\ AlertsFor(last.d) =>
              last.notes = << Note("DDNS IP Update FAILED", last.d, None, None) >>

\* C11: in a DDNS cycle a domain's last_update_time changes when, and only
\* when, the provider update for that domain succeeded; the match, alias,
\* auto_update=false and failed-update outcomes leave it as it was.
C11_UpdateTimeOnlyOnSuccess ==
    [][ last'.op = "ddns_domain" =>
            \A n \in ConfigNames :
                (EntryOf(domain_states', n).last_update_time #
                     EntryOf(domain_states, n).last_update_time)
                <=> (n = last'.d /\ last'.sets # <<>> /\ last'.upd = "ok")
      ]_vars

\* C12: save followed by load reproduces the state: after every successful
\* save, loading the file that was written gives back the public_ip, the
\* last_ip_check_time and every domain's recorded_ip, ssl_expiration,
\* last_update_time and ssl_last_renew that are in memory, null fields null
\* and timestamps at the same instant.
C12_SaveLoadRoundTrip ==
    last.saved =>
        /\ disk # <<>>
        /\ load_state(disk, "ok", None, NoTime, [n \in {} |-> EmptyEntry])
              = [public_ip |-> public_ip,
                 last_ip_check_time |-> last_ip_check_time,
                 domain_states |-> domain_states]

\* C12's case: a save of a state that holds an IP, a check time, and domain
\* entries with set and with null timestamps of every kind.
C12_Witness ==
    /\ last.saved
    /\ public_ip \in IPs
    /\ last_ip_check_time # NoTime
    /\ \E n \in DOMAIN domain_states :
          /\ domain_states[n].recorded_ip \in IPs
          /\ domain_states[n].last_update_time # NoTime
          /\ domain_states[n].ssl_expiration = NoTime
    /\ \E n \in DOMAIN domain_states :
          /\ domain_states[n].ssl_expiration # NoTime
          /\ domain_states[n].ssl_last_renew # NoTime
          /\ domain_states[n].recorded_ip = None

\* C13: when load_state fails to read the persisted state it raises nothing
\* and app_state is what it was before the call: public_ip and
\* last_ip_check_time keep their values, every domain entry stays, and no
\* field of an entry that held a value is cleared or overwritten.
C13_FailedLoadKeepsState ==
    [][ (last'.op = "initial_setup" /\ last'.loaded = "error") =>
            /\ sched_pc' # "dead"
            /\ public_ip' = public_ip
            /\ last_ip_check_time' = last_ip_check_time
            /\ \A n \in DOMAIN domain_states :
                  /\ n \in DOMAIN domain_states'
                  /\ domain_states'[n].recorded_ip = domain_states[n].recorded_ip
                  /\ domain_states'[n].last_update_time =
                        domain_states[n].last_update_time
                  /\ domain_states'[n].ssl_last_renew = domain_states[n].ssl_last_renew
                  /\ domain_states[n].ssl_expiration # NoTime =>
                        domain_states'[n].ssl_expiration =
                            domain_states[n].ssl_expiration
      ]_vars

\* C14: every mutation of app_state (public_ip, last_ip_check_time, a new
\* domain entry, a field of an entry) happens while the state lock is held:
\* a step that changes app_state is made by the thread that is inside "with
\* state_lock", or is the update that load_state makes inside its own.
C14_MutationsUnderLock ==
    [][ state_vars' # state_vars =>
            \/ HoldsLock(last'.t)
            \/ /\ last'.op = "initial_setup"
               /\ \E parse \in ParseResults(disk) :
                     Memory(public_ip', last_ip_check_time', domain_states')
                        = load_state(disk, parse, public_ip, last_ip_check_time,
                                     domain_states)
      ]_vars

\* C15: a save_state that runs while another thread assigns to app_state
\* writes a complete document that equals app_state at one instant during
\* the save, and is not lost because of the concurrent assignment.
C15_ConcurrentSave ==
    [][ (saver.pc = "copy" /\ saver'.pc = "idle") =>
            /\ ~last'.raised
            /\ last'.saved =>
                  \E m \in saver.seen :
                      disk' = <<state_to_save(m.public_ip, m.last_ip_check_time,
                                              m.domain_states)>>
      ]_vars

\* The SSL-enabled positions of the configuration.
SslPositions == { i \in 1..Len(domains) : domains[i].ssl }
LongNaps(w) == Cardinality({ k \in DOMAIN worker[w].naps : worker[w].naps[k] = "long" })

\* C16: for a batch of N SSL-enabled domains with existing certificates the
\* worker takes the long pause floor((N-1)/10) times, the short pause after
\* every other domain except the last, and N-1 pauses in total.
C16_PauseCounts ==
    \A w \in Threads :
        (worker[w].st = "done" /\ SslPositions # {} /\ worker[w].certs = SslPositions) =>
            LET N == Cardinality(SslPositions)
            IN  /\ Len(worker[w].naps) = N - 1
                /\ LongNaps(w) = (N - 1) \div LongNapEvery

\* C17: the worker never pauses after the last domain it processes, also
\* when domains that are not SSL-enabled follow it in configuration order,
\* and the long pause is taken after every 10th processed domain, not every
\* 10th configuration position.
C17_NoPauseAfterLast ==
    \A w \in Threads :
        worker[w].st = "nap" =>
            /\ \E j \in SslPositions : j > worker[w].i
            /\ (NapAfter(worker[w].i, Len(domains)) = "long")
                  <=> (Cardinality(worker[w].processed) % LongNapEvery = 0)

\* C18: the SSL worker never invokes certificate issuance, and it invokes
\* the renewal check for a domain only when the certificate reader reports
\* an existing certificate; a domain with no certificate gets no issuer call.
C18_NoIssuanceByWorker ==
    last.op = "worker_domain" =>
        /\ last.creates = <<>>
        /\ last.renews # <<>> => last.queried = "cert"
        /\ last.queried = None => last.renews = <<>>

\* C18's case: the worker has handled an SSL-enabled domain whose
\* certificate is missing.
C18_Witness ==
    /\ last.op = "worker_domain"
    /\ ConfigOf(last.d).ssl
    /\ last.queried = None
    /\ last.renews = <<>>
    /\ ~last.raised

\* C19: for an SSL-enabled domain with auto_update=false the renewal
\* collaborator is called only in dry-run mode and, whatever text the dry run
\* returns, ssl_last_renew is not recorded and no renewal-success
\* notification is emitted.
C19_DryRunMutatesNothing ==
    [][ (last'.op = "worker_domain" /\ ~ConfigOf(last'.d).auto_update) =>
            /\ \A k \in DOMAIN last'.renews : last'.renews[k][2]
            /\ EntryOf(domain_states', last'.d).ssl_last_renew
                  = EntryOf(domain_states, last'.d).ssl_last_renew
            /\ \A k \in DOMAIN last'.notes :
                  last'.notes[k].kind # "SSL Certificate Renewed Successfully"
      ]_vars

\* The channel families that delivered the last test notification.
Delivered ==
    LET svc == NotificationService(channels, notifications_enabled)
    IN  ( IF svc.smtp_enabled /\ last.fanout[1].smtp_ok THEN {"smtp"} ELSE {} ) \cup
        ( IF svc.servers # {} /\ last.fanout[1].apprise_ok THEN {"url"} ELSE {} )

\* C20: with notifications enabled, _send reports success exactly when at
\* least one enabled channel delivered the message; when every enabled
\* channel fails it reports failure, also when SMTP or the URL-based
\* notifiers are not configured at all.
C20_FanoutResult ==
    (last.op = "send_test" /\ NotificationService(channels, notifications_enabled).enabled)
        => (last.fanout[1].result <=> Delivered # {})

\* The minutes of the hour at which the hourly jobs of js call f.
MinutesFor(js, f) == { js[k].at[1] : k \in { j \in JobsFor(js, f) : js[j].unit = "hour" } }
DdnsJobs == JobsFor(jobs, "run_ddns_update")

\* C21: once run_scheduler has registered its jobs, '5m' has exactly twelve
\* DDNS jobs, hourly at minutes 0, 5, ..., 55; '10m' six, at 0, 10, ..., 50;
\* '60m' one, at minute 0; '24h' one daily job whose UTC time is local 00:00
\* in the configured timezone.
C21_IntervalJobs ==
    sched_pc # "setup" =>
        /\ ip_check_interval = "5m" =>
              /\ Cardinality(DdnsJobs) = 12
              /\ MinutesFor(jobs, "run_ddns_update") = { 5 * k : k \in 0..11 }
        /\ ip_check_interval = "10m" =>
              /\ Cardinality(DdnsJobs) = 6
              /\ MinutesFor(jobs, "run_ddns_update") = { 10 * k : k \in 0..5 }
        /\ ip_check_interval = "60m" =>
              /\ Cardinality(DdnsJobs) = 1
              /\ MinutesFor(jobs, "run_ddns_update") = {0}
        /\ ip_check_interval = "24h" =>
              /\ Cardinality(DdnsJobs) = 1
              /\ \A k \in DdnsJobs :
                    /\ jobs[k].unit = "day"
                    /\ (jobs[k].at[1] * 60 + jobs[k].at[2] + timezone) % 1440 = 0

C21_Witness ==
    /\ ip_check_interval = "5m"
    /\ timezone = -300
    /\ sched_pc = "loop"
    /\ Cardinality(DdnsJobs) = 12
    /\ last.op = "ddns_resolve"

\* C22: with ip_check_interval 'disabled' no DDNS job is ever registered and
\* the eager startup cycle does not run, so the scheduler thread never runs
\* a DDNS cycle; the certificate check and the log cleanup are registered.
C22_DisabledRunsNoCycle ==
    ip_check_interval = "disabled" =>
        /\ ~DdnsRegistered(jobs)
        /\ sched_pc # "eager"
        /\ cyc["sched"] = IdleCycle
        /\ ~(last.t = "sched" /\ last.op \in {"ddns_resolve", "ddns_domain", "ddns_save"})
        /\ sched_pc # "setup" =>
              /\ Registered(jobs, "run_ssl_check")
              /\ Registered(jobs, "run_log_cleanup")

C22_Witness ==
    /\ ip_check_interval = "disabled"
    /\ worker["sched"].st = "done"
    /\ last.op = "log_cleanup"

\* C23: an ip_check_interval outside {5m, 10m, 60m, 24h, disabled} registers
\* exactly the DDNS jobs of '5m', and the eager startup cycle has run when
\* run_scheduler enters its loop.
C23_UnknownIntervalAsFiveMinutes ==
    ( /\ ip_check_interval \notin {"5m", "10m", "60m", "24h", "disabled"}
      /\ sched_pc # "setup" ) =>
        /\ SelectSeq(jobs, LAMBDA j : j.do = "run_ddns_update") = ddns_jobs("5m", timezone)
        /\ sched_pc \in {"loop", "dead"} => cyc["sched"].pc # "idle"

C23_Witness ==
    /\ ip_check_interval = "15m"
    /\ sched_pc = "loop"
    /\ Cardinality(DdnsJobs) = 12
    /\ cyc["sched"].pc = "done"
    /\ cyc["sched"].saves = 1

\* The numeral of n, as it stands in log_retention.
Numeral(n) == CASE n = 1 -> "1" [] n = 2 -> "2" [] n = 3 -> "3"

\* C24: a log cleanup with retention '<n> weeks' calls os.remove on every
\* candidate log file modified before now minus 7n days, and on no other
\* file; a candidate modified at or after that cutoff is still there.
C24_WeeksCutoff ==
    [][ \A n \in 1..3 :
          ( /\ last'.op = "log_cleanup"
            /\ log_retention \in { <<Numeral(n), "weeks">>, <<Numeral(n), "Weeks">> } ) =>
              \A f \in logs :
                 /\ (IsCandidate(f[1], ConfigNames) /\ f[2] < now - 7 * n)
                        <=> f \in last'.removes
                 /\ (IsCandidate(f[1], ConfigNames) /\ f[2] >= now - 7 * n)
                        => f \in logs'
                 /\ f \notin last'.removes => f \in logs' ]_vars

C24_Witness ==
    /\ last.op = "log_cleanup"
    /\ log_retention = <<"2", "weeks">>
    /\ \E f \in last.removes : f[2] = -15 /\ f \notin logs
    /\ \E f \in logs : IsCandidate(f[1], ConfigNames) /\ f[2] = -14

\* C25: a DDNS step whose record read failed issues no update call and, with
\* alerts enabled for the domain, sends a failure notification.
C25_FailedReadIsFailure ==
    (last.op = "ddns_domain" /\ last.answer = ClientError) =>
        /\ last.sets = <<>>
        /\ AlertsFor(last.d) =>
              \E k \in DOMAIN last.notes :
                 last.notes[k].kind \in {"DDNS IP Update FAILED", "DDNS IP Check FAILED"}

\* C26: a force update of a domain whose stored recorded_ip is an alias value
\* issues no provider update call.
C26_ForceUpdateSparesAlias ==
    [][ ( /\ last'.op = "force_update_ip"
          /\ last'.d \in DOMAIN domain_states
          /\ IsAlias(domain_states[last'.d].recorded_ip) ) => last'.sets = <<>> ]_vars

\* C27: a DDNS cycle saves the state exactly once: a cycle that has ended,
\* after its domain loop or in the resolution-failure branch, has called
\* save_state once, and a cycle inside its domain loop has not called it.
C27_SavesOncePerCycle ==
    \A t \in Threads :
        /\ cyc[t].pc \in {"done", "raised"} => cyc[t].saves = 1
        /\ cyc[t].pc = "loop" => cyc[t].saves = 0

\* What a restart would load from STATE_FILE for the domain name.
Persisted(name) ==
    EntryOf(load_state(disk, "ok", None, NoTime, [n \in {} |-> EmptyEntry]).domain_states,
            name)

C29_RenewalResultMapping ==
    [][ (last'.op = "worker_domain" /\ last'.renewal # <<>>) =>
          LET name == last'.d
              res == last'.renewal[1]
              old == EntryOf(domain_states, name).ssl_last_renew
              new == EntryOf(domain_states', name).ssl_last_renew
              marker == res[2] \in {"Congratulations, all renewals succeeded",
                                    "Renewed certificate"}
              one(kind) == IF AlertsFor(name)
                           THEN << Note(kind, name, res[2], None) >> ELSE <<>>
          IN  /\ ~res[1] =>
                    new = old /\ last'.notes = one("SSL Certificate Renewal FAILED")
              /\ (res[1] /\ marker) =>
                    /\ new = At(now)
                    /\ last'.notes = one("SSL Certificate Renewed Successfully")
              /\ (res[1] /\ ~marker) => new = old /\ last'.notes = <<>> ]_vars

\* C30: after the renewal check of a domain, whatever its result, the worker
\* has re-read the certificate's expiration and the domain's stored
\* ssl_expiration is the re-read value.
C30_ExpirationReread ==
    (last.op = "worker_domain" /\ last.renewal # <<>>) =>
        /\ last.reread # <<>>
        /\ EntryOf(domain_states, last.d).ssl_expiration = last.reread[1]

\* C31: for every SSL-enabled domain that has a certificate the worker calls
\* the renewal check once, for that domain, with --dry-run exactly when the
\* domain's auto_update is false.
C31_DryRunIffNoAutoUpdate ==
    (last.op = "worker_domain" /\ last.queried = "cert") =>
        last.renews = << <<last.d, ~ConfigOf(last.d).auto_update>> >>

C31_Witness ==
    /\ last.op = "worker_domain"
    /\ last.queried = "cert"
    /\ ConfigOf(last.d).auto_update
    /\ last.renews = << <<last.d, FALSE>> >>
    /\ last.renewal # <<>>
    /\ ~last.raised

\* The notifications about one domain.
PerDomainKinds ==
    { "DDNS IP Updated", "DDNS IP Update FAILED", "DDNS IP Mismatch DETECTED",
      "SSL Certificate Renewal FAILED", "SSL Certificate Renewed Successfully" }

\* C32: a step of the DDNS domain loop or of the SSL worker emits a
\* per-domain notification only for its own domain and only when the global
\* notifications flag and the domain's notifications flag are both true.
C32_AlertsNeedBothFlags ==
    \A k \in DOMAIN last.notes :
        last.notes[k].kind \in PerDomainKinds =>
            /\ last.notes[k].domain = last.d
            /\ notifications_enabled
            /\ ConfigOf(last.d).notifications

C32_Witness ==
    /\ last.op = "worker_domain"
    /\ last.renewal # <<>>
    /\ ~last.renewal[1][1]
    /\ notifications_enabled
    /\ ~ConfigOf(last.d).notifications
    /\ last.notes = <<>>

\* C33: the scheduler thread runs nothing before its initial setup is over;
\* between the setup and its loop it runs the eager DDNS cycle and nothing
\* else, and it enters the loop after exactly one cycle, or after none when
\* ip_check_interval is 'disabled'.
C33_StartupOrder ==
    /\ sched_pc = "setup" =>
          /\ cyc["sched"] = IdleCycle
          /\ trig["sched"] = "idle"
          /\ worker["sched"] = NoWorker
          /\ last.t # "sched"
    /\ sched_pc = "eager" =>
          /\ ip_check_interval # "disabled"
          /\ now <= 1
          /\ trig["sched"] = "idle"
          /\ worker["sched"] = NoWorker
          /\ last.op \in {"initial_setup", "ddns_resolve", "ddns_domain"}
    /\ sched_pc = "loop" =>
          /\ ip_check_interval # "disabled" => now >= 1
          /\ ip_check_interval = "disabled" => now = 0
          /\ last.op = "initial_setup" => ip_check_interval = "disabled"

C33_Witness ==
    /\ sched_pc = "loop"
    /\ now = 1
    /\ cyc["sched"].pc = "done"
    /\ last.op = "ssl_scan"
    /\ last.t = "sched"
    /\ domain_states # <<>>

\* C34: run_ssl_check has returned whenever its worker is alive, so a worker
\* that pauses does not keep the scheduler loop from running its other
\* tasks: outside a DDNS cycle the loop may start one and may run the log
\* cleanup.
C34_TriggerDoesNotBlock ==
    \A w \in Threads :
        Alive(w) =>
            /\ trig[w] = "idle"
            /\ (w = "sched" /\ worker[w].st = "nap" /\ sched_pc = "loop"
                  /\ cyc["sched"].pc # "loop") =>
                     /\ MayStartCycle("sched")
                     /\ MayRun("sched", "run_log_cleanup")

C34_Witness ==
    /\ worker["sched"].st = "nap"
    /\ last.op = "ddns_save"
    /\ last.t = "sched"
    /\ now = 2
    /\ MayRun("sched", "run_log_cleanup")

\* C35: a DomainState entry is never removed: over every step (load, save,
\* DDNS cycle, SSL batch, refresh, force update) a domain name that is a key
\* of domain_states stays a key, whether or not it is still configured.
C35_EntriesNeverRemoved ==
    [][ DOMAIN domain_states \subseteq DOMAIN domain_states' ]_vars

\* C36: DomainState fields are overwritten independently: a step of a DDNS
\* cycle leaves ssl_expiration and ssl_last_renew of every entry as they were,
\* and a step of an SSL batch leaves public_ip, last_ip_check_time and
\* recorded_ip and last_update_time of every entry as they were.
C36_FieldsIndependent ==
    [][ /\ last'.op \in {"ddns_resolve", "ddns_domain", "ddns_save"} =>
              \A n \in DOMAIN domain_states :
                  /\ n \in DOMAIN domain_states'
                  /\ domain_states'[n].ssl_expiration = domain_states[n].ssl_expiration
                  /\ domain_states'[n].ssl_last_renew = domain_states[n].ssl_last_renew
        /\ last'.op \in {"ssl_scan", "ssl_start", "worker_domain", "worker_skip",
                         "worker_nap", "worker_exit"} =>
              /\ public_ip' = public_ip
              /\ last_ip_check_time' = last_ip_check_time
              /\ \A n \in DOMAIN domain_states :
                    /\ n \in DOMAIN domain_states'
                    /\ domain_states'[n].recorded_ip = domain_states[n].recorded_ip
                    /\ domain_states'[n].last_update_time =
                          domain_states[n].last_update_time
      ]_vars

\* A DDNS cycle that runs while the worker is alive has just updated the
\* record of a domain whose renewal the worker recorded.
C36_Witness ==
    /\ last.op = "ddns_domain"
    /\ last.sets # <<>>
    /\ Alive("sched")
    /\ worker["sched"].processed = {1}
    /\ last.d \in DOMAIN domain_states
    /\ domain_states[last.d].ssl_last_renew # NoTime
    /\ domain_states[last.d].ssl_expiration # NoTime
    /\ domain_states[last.d].recorded_ip = last.prev_ip
    /\ domain_states[last.d].last_update_time = At(now)

\* C37: when the public-IP resolution fails the DDNS cycle makes no provider
\* call (no record read, no update) and leaves domain_states, hence every
\* recorded_ip and last_update_time, as it was: the failed resolution ends the
\* cycle, public_ip becomes null and last_ip_check_time the time of the check,
\* and the domain loop only ever runs on a resolved address.
C37_FailedResolutionTouchesNothing ==
    [][ /\ (last'.op = "ddns_resolve" /\ last'.resolved = None) =>
              /\ last'.gets = <<>>
              /\ last'.sets = <<>>
              /\ domain_states' = domain_states
              /\ public_ip' = None
              /\ last_ip_check_time' = At(now')
              /\ cyc'[last'.t].pc = "done"
        /\ last'.op = "ddns_domain" => cyc[last'.t].ip # None
      ]_vars

\* A resolution has just failed after an earlier cycle recorded an address
\* for a domain.
C37_Witness ==
    /\ last.op = "ddns_resolve"
    /\ last.resolved = None
    /\ last.prev_ip # None
    /\ public_ip = None
    /\ \E n \in DOMAIN domain_states :
          /\ domain_states[n].recorded_ip \in IPs
          /\ domain_states[n].last_update_time # NoTime
          /\ domain_states[n].last_update_time # last_ip_check_time

\* C38: a force update issues a provider update only for a configured
\* DDNS-enabled domain while public_ip is known, and then one update of that
\* domain to public_ip; when public_ip is null, the domain is unknown or not
\* DDNS-enabled, or the provider update does not succeed, domain_states is
\* left as it was and nothing is saved.
C38_ForceUpdateGuards ==
    [][ last'.op = "force_update_ip" =>
          LET known == \E i \in 1..Len(domains) :
                          NameOf(i) = last'.d /\ domains[i].ddns
          IN  /\ last'.sets # <<>> =>
                    /\ known
                    /\ public_ip # None
                    /\ last'.sets = << <<last'.d, public_ip>> >>
              /\ (~known \/ public_ip = None) => last'.sets = <<>>
              /\ (~known \/ public_ip = None \/ last'.upd \in {"fail", Raise}) =>
                    /\ domain_states' = domain_states
                    /\ disk' = disk
                    /\ ~last'.saved
      ]_vars

\* A force update of a configured DDNS domain with a known public IP has just
\* failed at the provider; the entry still holds another address.
C38_Witness ==
    /\ last.op = "force_update_ip"
    /\ last.sets = << <<last.d, public_ip>> >>
    /\ last.upd = "fail"
    /\ public_ip # None
    /\ last.d \in DOMAIN domain_states
    /\ domain_states[last.d].recorded_ip \in IPs \ {public_ip}

\* C39: the single-flight guard is always released: every started worker
\* eventually stops being listed as running (it returns after its last domain
\* or dies of an exception), and a trigger whose scan runs while no worker is
\* listed goes on to start a new worker.
C39_GuardReleased ==
    /\ \A w \in Threads : Alive(w) ~> ~Alive(w)
    /\ [][ (last'.op = "ssl_scan" /\ ~WorkerRunning) =>
              /\ trig'[last'.t] = "clear"
              /\ worker'[last'.t].st \in {"none", "done", "dead"} ]_vars
    /\ [][ (trig[last'.t] = "clear" /\ last'.op # "initial_setup") =>
              /\ last'.op = "ssl_start"
              /\ worker'[last'.t].st = "run" ]_vars

\* A trigger has just started a new worker after an earlier batch recorded a
\* renewal and ended.
C39_Witness ==
    /\ last.op = "ssl_start"
    /\ last.t = "ui"
    /\ worker["ui"].st = "run"
    /\ worker["ui"].processed = {}
    /\ \E n \in DOMAIN domain_states : domain_states[n].ssl_last_renew # NoTime

\* C40: once initial setup has ended every SSL-enabled domain of the
\* configuration has a DomainState entry; after a DDNS cycle that resolved
\* the public IP and ran to its end every configured domain has one; and the
\* worker's write of ssl_last_renew never fails for want of an entry.
C40_EntriesPresent ==
    /\ sched_pc # "setup" =>
          \A i \in 1..Len(domains) :
              domains[i].ssl => NameOf(i) \in DOMAIN domain_states
    /\ \A t \in Threads :
          (cyc[t].pc = "done" /\ cyc[t].ip # None) =>
              ConfigNames \subseteq DOMAIN domain_states
    /\ last.op = "worker_domain" => ~last.raised

====
